---- MODULE Spec2Model ----
(***************************************************************************)
(* Model of main.py: the Falabella offer scanner.  One run of main() is a  *)
(* scan: it loads state.json, pages through every category listing,        *)
(* deduplicates the candidate links, fetches every candidate product,      *)
(* notifies the qualifying new offers through Telegram, saves state.json   *)
(* and sends a summary.  The state file outlives a run; the process is     *)
(* started again for the next run.                                         *)
(***************************************************************************)
EXTENDS Integers, Sequences, FiniteSets, TLC

\* ------------------------------------------------------------------ bounds
MaxRuns == 2        \* runs of main() over the same state file
MaxLinks == 1       \* product links one listing page yields at most

\* ------------------------------------------------------- program constants
\* Read from the environment; the page and product limits are set small here
\* (their defaults are 6 and 200).
MIN_DISCOUNT_PERCENT == 50
MAX_PRODUCTS_PER_CATEGORY == 2
MAX_PAGES_PER_CATEGORY == 2
\* The cap N on the persisted `sent` mapping that the design documents; main.py
\* has no such setting.
SENT_CAP == 2

\* Optional[...] fields: None is a value outside prices and percentages.
None == 0 - 1

\* The configured sources (category_urls) and the product URLs the listings
\* of the site show.
category_urls == <<"cat1", "cat2">>
Urls == {"u1", "u2"}

\* ----------------------------------------------------------------- helpers
Range(s) == {s[i] : i \in 1..Len(s)}

Min(S) == CHOOSE x \in S : \A y \in S : x <= y
Max(S) == CHOOSE x \in S : \A y \in S : x >= y

Take(s, n) == SubSeq(s, 1, IF Len(s) < n THEN Len(s) ELSE n)

\* Python truthiness of an Optional[float]: None and 0.0 are false.
Falsy(x) == x = None \/ x = 0

\* ------------------------------------------------ extraction (pure functions)
\* A fetched product page, by what the extractors read from it:
\*   now_keys    values of the "current price" keys and of itemprop="price",
\*               each already through _to_float_price
\*   before_keys values of the "reference price" keys
\*   soles       values of the "S/ ..." text tokens
\*   neg, off, dscto   the number captured by the first "-NN%", "NN% OFF" and
\*               "NN% DSCTO/DESCUENTO" marker, or None when there is none
extract_prices(h) ==
  LET keys_now == {v \in h.now_keys : ~Falsy(v)}
      keys_before == {v \in h.before_keys : ~Falsy(v)}
      soles == {v \in h.soles : ~Falsy(v)}
      fallback == keys_now = {} /\ soles # {}
      candidates_now == IF fallback THEN {Min(soles)} ELSE keys_now
      candidates_before ==
        IF fallback /\ Cardinality(soles) >= 2
          THEN keys_before \cup {Max(soles)} ELSE keys_before
      now == IF candidates_now # {} THEN Min(candidates_now) ELSE None
      before0 == IF candidates_before # {} THEN Max(candidates_before) ELSE None
      before == IF ~Falsy(now) /\ ~Falsy(before0) /\ before0 <= now
                  THEN None ELSE before0
  IN  <<now, before>>

\* round((1.0 - now/before) * 100): the nearest integer.  At an exact half the
\* binary floating-point error of the quotient decides which neighbour Python
\* returns, so both neighbours are outcomes.
RoundedPct(now, before) ==
  LET n == 100 * (before - now)
      q == n \div before
      r == n % before
  IN  IF 2 * r < before THEN {q}
      ELSE IF 2 * r > before THEN {q + 1}
      ELSE {q, q + 1}

\* The set of values compute_discount can return (one value except at a half).
compute_discount(now, before) ==
  IF Falsy(now) \/ Falsy(before) \/ before <= 0
    THEN {None}
    ELSE {IF pct < 0 THEN None ELSE pct : pct \in RoundedPct(now, before)}

extract_discount_from_html(h) ==
  IF h.neg # None THEN h.neg
  ELSE IF h.off # None THEN h.off
  ELSE IF h.dscto # None THEN h.dscto
  ELSE None

\* The Products fetch_product can build from a page that was served and is not
\* a block page.
fetch_product(url, h) ==
  LET prices == extract_prices(h)
  IN  {[url |-> url, price_now |-> prices[1], price_before |-> prices[2],
        discount_pct |-> IF disc = None THEN extract_discount_from_html(h) ELSE disc]
        : disc \in compute_discount(prices[1], prices[2])}

NoProduct == [url |-> "", price_now |-> None, price_before |-> None,
              discount_pct |-> None]

\* Product pages of the scans: no price data, 49 % and 50 % from the prices,
\* and a "-70%" marker.
Page(nk, bk, so, neg, off, dscto) ==
  [now_keys |-> nk, before_keys |-> bk, soles |-> so,
   neg |-> neg, off |-> off, dscto |-> dscto]

ScanPages ==
  { Page({}, {}, {}, None, None, None),
    Page({51}, {100}, {}, None, None, None),
    Page({50}, {100}, {}, None, None, None),
    Page({}, {}, {}, 70, None, None) }

\* ------------------------------------------------------------- collections
\* Append to acc the elements of s not yet in it, first occurrence first: the
\* `if u not in seen: seen.add(u); append(u)` loops.
RECURSIVE AppendNew(_, _)
AppendNew(acc, s) ==
  IF s = <<>> THEN acc
  ELSE AppendNew(IF Head(s) \in Range(acc) THEN acc ELSE Append(acc, Head(s)),
                 Tail(s))

\* What extract_product_links_from_listing can return for a listing page: a
\* duplicate-free list of product URLs.
RECURSIVE ListsUpTo(_)
ListsUpTo(n) ==
  IF n = 0 THEN {<<>>}
  ELSE LET shorter == ListsUpTo(n - 1)
       IN  shorter \cup {Append(l, u) : l \in {x \in shorter : Len(x) = n - 1},
                                        u \in Urls}
Listings == {l \in ListsUpTo(MaxLinks) : Cardinality(Range(l)) = Len(l)}

\* ------------------------------------------------------------ the state file
\* state.json by what json.load makes of it:
\*   kind      "missing" (no file), "corrupt" (not JSON), "nondict" (JSON whose
\*             top level is not an object, e.g. a list), "dict"
\*   sentKind  of a dict: "absent" (no "sent" key), "nonmap" ("sent" is null or
\*             another non-object), "map"
\*   sent      of a map: the entries in insertion order
FileOf(kind, sentKind, s, lr) ==
  [kind |-> kind, sentKind |-> sentKind, sent |-> s, last_run |-> lr]

FreshState == FileOf("dict", "map", <<>>, None)

Entry(url, ts, discount) == [url |-> url, ts |-> ts, discount |-> discount]

\* The state files a first run can find: none, unreadable ones, and the files
\* of earlier runs ("u0" is an offer the listings no longer show).
InitialFiles ==
  { FileOf("missing", "absent", <<>>, None),
    FileOf("corrupt", "absent", <<>>, None),
    FileOf("nondict", "absent", <<>>, None),
    FileOf("dict", "absent", <<>>, 0),
    FileOf("dict", "nonmap", <<>>, 0),
    FileOf("dict", "map", <<>>, 0),
    FileOf("dict", "map", <<Entry("u0", 0, 50)>>, 0),
    FileOf("dict", "map", <<Entry("u1", 0, 50)>>, 0) }

load_state(f) ==
  IF f.kind = "missing" THEN FreshState
  ELSE IF f.kind = "corrupt" THEN FreshState
  ELSE f

\* json.dump(state): the file holds the state object as it is.
save_state(st) == st

\* set(sent.keys())
Keys(s) == {s[i].url : i \in 1..Len(s)}

\* ------------------------------------------------------------------- state
VARIABLES
  file,               \* state.json on disk
  run,                \* the clock: the number of the current run of main()
  RESET_STATE,        \* the RESET_STATE flag of the current run
  credentials,        \* BOT_TOKEN and CHAT_ID are both set
  pc,                 \* where main() is
  error,              \* the exception that ended main(), or "none"
  state,              \* main: state
  sent,               \* main: sent (insertion-ordered)
  sent_set,           \* main: sent_set
  ci,                 \* main: index of the category of the `for cu` loop
  page,               \* fetch_category_products: page
  all_links,          \* fetch_category_products: all_links (seen is its set)
  per_cat_count,      \* main: per_cat_count, in insertion order
  all_candidate_urls, \* main: all_candidate_urls
  deduped,            \* main: deduped
  total_checked,      \* main: total_checked, also the position of `for url`
  total_found,        \* main: total_found
  total_sent,         \* main: total_sent
  blocked_hits,       \* main: blocked_hits
  html,               \* fetch_product: the page last extracted from
  product,            \* fetch_product: the Product last built
  outbox,             \* the telegram_send calls of this run, with their outcome
  fetchlog,           \* history: the fetch_product calls of this run
  loadedFile,         \* history: the file as load_state found it
  loadedKeys,         \* history: the keys of sent when the scan began
  kept,               \* history: identities notified by a run whose state was
                      \*   persisted, with no reset since
  collected           \* history: links fetch_category_products accumulated

scanVars == <<state, sent, sent_set, ci, page, all_links, per_cat_count,
              all_candidate_urls, deduped, total_checked, total_found,
              total_sent, blocked_hits>>
histVars == <<fetchlog, loadedFile, loadedKeys, kept, collected>>
vars == <<file, run, RESET_STATE, credentials, pc, error, scanVars, html,
          product, outbox, histVars>>

NoPage == Page({}, {}, {}, None, None, None)

\* The locals of main() when the process starts.
Fresh ==
  /\ pc = "load" /\ error = "none"
  /\ state = FreshState /\ sent = <<>> /\ sent_set = {}
  /\ ci = 1 /\ page = 1 /\ all_links = <<>>
  /\ per_cat_count = <<>> /\ all_candidate_urls = <<>> /\ deduped = <<>>
  /\ total_checked = 0 /\ total_found = 0 /\ total_sent = 0 /\ blocked_hits = 0
  /\ html = NoPage /\ product = NoProduct
  /\ outbox = <<>> /\ fetchlog = <<>> /\ collected = {}

Init ==
  /\ file \in InitialFiles
  /\ run = 1
  /\ RESET_STATE \in BOOLEAN
  /\ credentials \in BOOLEAN
  /\ Fresh
  /\ loadedFile = file /\ loadedKeys = {} /\ kept = {}

\* ---------------------------------------------------------------- Telegram
\* telegram_send: raises without credentials, raises on a non-success
\* response, returns on success.
TelegramOutcomes == IF credentials THEN {"ok", "error"} ELSE {"no_credentials"}

Msg(kind, url, outcome) == [kind |-> kind, url |-> url, outcome |-> outcome]

Delivered(box) ==
  {box[i].url : i \in {j \in 1..Len(box) : box[j].kind = "offer" /\ box[j].outcome = "ok"}}

\* ------------------------------------------------------------------ actions
\* A sent_set that is not seeded from the loaded state.
SentSet_unseeded(s) == {}

\* main, line 384: sent_set = set(sent.keys())
SentSet(s) == Keys(s)

\* main, lines 377-384: load the state, clear it on RESET_STATE, read `sent`.
\* state["sent"] = {} raises TypeError on a state that is not a dict;
\* state.get raises AttributeError on one, and so does sent.keys() when
\* "sent" is not a mapping.  Nothing catches them.
Load ==
  /\ pc = "load"
  /\ LET st0 == load_state(file)
         resetFails == RESET_STATE /\ st0.kind # "dict"
         st == IF RESET_STATE /\ st0.kind = "dict"
                 THEN [st0 EXCEPT !.sentKind = "map", !.sent = <<>>]
                 ELSE st0
         getFails == st.kind # "dict" \/ st.sentKind = "nonmap"
         s == IF st.sentKind = "map" THEN st.sent ELSE <<>>
     IN  /\ state' = st
         /\ loadedFile' = file
         /\ kept' = IF RESET_STATE THEN {} ELSE kept
         /\ IF resetFails \/ getFails
              THEN /\ pc' = "failed"
                   /\ error' = IF resetFails THEN "TypeError" ELSE "AttributeError"
                   /\ UNCHANGED <<sent, sent_set, loadedKeys>>
              ELSE /\ pc' = "categories"
                   /\ sent' = s
                   /\ sent_set' = SentSet(s)
                   /\ loadedKeys' = Keys(s)
                   /\ UNCHANGED error
  /\ UNCHANGED <<file, run, RESET_STATE, credentials, ci, page, all_links,
                 per_cat_count, all_candidate_urls, deduped, total_checked,
                 total_found, total_sent, blocked_hits, html, product, outbox,
                 fetchlog, collected>>

\* main, lines 391-401: the `for cu` loop moves on; after the last category
\* main goes to the zero-products report or to the candidates.
NextCategory(candidates) ==
  /\ ci' = ci + 1
  /\ page' = 1
  /\ all_links' = <<>>
  /\ pc' = IF ci + 1 <= Len(category_urls) THEN "categories"
           ELSE IF candidates = <<>> THEN "report_zero"
           ELSE "dedupe"

\* fetch_category_products returns (line 345) and main records its links
\* (lines 394-395).
ReturnLinks(links) ==
  LET urls == Take(links, MAX_PRODUCTS_PER_CATEGORY)
  IN  /\ per_cat_count' = Append(per_cat_count, Len(urls))
      /\ all_candidate_urls' = all_candidate_urls \o urls
      /\ NextCategory(all_candidate_urls \o urls)

\* fetch_category_products, lines 321-322: the request for a listing page
\* raises (transport error, timeout, non-success status).  The exception leaves
\* fetch_category_products and main's handler (lines 397-399) counts 0 links
\* for the category.
ListingFetchFails ==
  /\ pc = "categories"
  /\ per_cat_count' = Append(per_cat_count, 0)
  /\ NextCategory(all_candidate_urls)
  /\ UNCHANGED <<file, run, RESET_STATE, credentials, error, state, sent,
                 sent_set, all_candidate_urls, deduped, total_checked,
                 total_found, total_sent, blocked_hits, html, product, outbox,
                 histVars>>

\* fetch_category_products, lines 324-326: a block page ends the pagination.
ListingBlocked ==
  /\ pc = "categories"
  /\ ReturnLinks(all_links)
  /\ UNCHANGED <<file, run, RESET_STATE, credentials, error, state, sent,
                 sent_set, deduped, total_checked, total_found, total_sent,
                 blocked_hits, html, product, outbox, histVars>>

\* fetch_category_products, lines 328-342: a listing page with `links`.
ListingPage(links) ==
  /\ pc = "categories"
  /\ IF links = <<>> /\ page > 1
       THEN /\ ReturnLinks(all_links)
            /\ UNCHANGED collected
       ELSE LET acc == AppendNew(all_links, links)
            IN  /\ collected' = collected \cup Range(Take(acc, MAX_PRODUCTS_PER_CATEGORY))
                /\ IF Len(acc) >= MAX_PRODUCTS_PER_CATEGORY
                        \/ page = MAX_PAGES_PER_CATEGORY
                     THEN ReturnLinks(acc)
                     ELSE /\ all_links' = acc
                          /\ page' = page + 1
                          /\ UNCHANGED <<pc, ci, per_cat_count, all_candidate_urls>>
  /\ UNCHANGED <<file, run, RESET_STATE, credentials, error, state, sent,
                 sent_set, deduped, total_checked, total_found, total_sent,
                 blocked_hits, html, product, outbox, fetchlog, loadedFile,
                 loadedKeys, kept>>

\* main, lines 401-406: no candidate at all: one report, and main returns.
ReportZero ==
  /\ pc = "report_zero"
  /\ \E outcome \in TelegramOutcomes :
       /\ outbox' = Append(outbox, Msg("zero", "", outcome))
       /\ pc' = IF outcome = "ok" THEN "done" ELSE "failed"
       /\ error' = IF outcome = "ok" THEN error ELSE "RuntimeError"
  /\ UNCHANGED <<file, run, RESET_STATE, credentials, scanVars, html, product,
                 histVars>>

\* main, lines 408-421.
Dedupe ==
  /\ pc = "dedupe"
  /\ deduped' = AppendNew(<<>>, all_candidate_urls)
  /\ pc' = "products"
  /\ UNCHANGED <<file, run, RESET_STATE, credentials, error, state, sent,
                 sent_set, ci, page, all_links, per_cat_count,
                 all_candidate_urls, total_checked, total_found, total_sent,
                 blocked_hits, html, product, outbox, histVars>>

\* The candidate of the current iteration of `for url in deduped`.
CurrentUrl == deduped[total_checked + 1]

\* The loop goes to the next candidate, or ends and main saves the state.
AfterCandidate ==
  /\ total_checked' = total_checked + 1
  /\ pc' = IF total_checked + 1 = Len(deduped) THEN "persist" ELSE "products"

Fetched(url, result, discount) ==
  [url |-> url, result |-> result, discount |-> discount]

\* A threshold filter that also drops a discount equal to the threshold.
Eligible_strict(p) ==
  ~(p.discount_pct = None \/ p.discount_pct <= MIN_DISCOUNT_PERCENT)

\* main, line 429 negated: the candidate passes the threshold filter.
Eligible(p) ==
  ~(p.discount_pct = None \/ p.discount_pct < MIN_DISCOUNT_PERCENT)

\* sent[key] = value on an insertion-ordered dict.
Put(s, e) ==
  IF e.url \in Keys(s)
    THEN [i \in 1..Len(s) |-> IF s[i].url = e.url THEN e ELSE s[i]]
    ELSE Append(s, e)

\* Recording the offer whatever telegram_send did.
Recorded_always(s, p, outcome, now) ==
  Put(s, Entry(p.url, now, p.discount_pct))

\* main, lines 437-440: line 440 is reached only when telegram_send returned.
Recorded(s, p, outcome, now) ==
  IF outcome = "ok" THEN Put(s, Entry(p.url, now, p.discount_pct)) ELSE s

\* A failed product fetch that is not caught and ends main().
ProductFetchFails_abort ==
  /\ pc = "products"
  /\ fetchlog' = Append(fetchlog, Fetched(CurrentUrl, "error", None))
  /\ total_checked' = total_checked + 1
  /\ pc' = "failed"
  /\ error' = "HTTPError"
  /\ UNCHANGED <<file, run, RESET_STATE, credentials, state, sent,
                 sent_set, ci, page, all_links, per_cat_count,
                 all_candidate_urls, deduped, total_found, total_sent,
                 blocked_hits, html, product, outbox, loadedFile, loadedKeys,
                 kept, collected>>

\* fetch_product, lines 296-297: the request raises (transport error, timeout,
\* non-success status); main's handler (lines 445-448) logs it.
ProductFetchFails ==
  /\ pc = "products"
  /\ fetchlog' = Append(fetchlog, Fetched(CurrentUrl, "error", None))
  /\ AfterCandidate
  /\ UNCHANGED <<file, run, RESET_STATE, credentials, error, state, sent,
                 sent_set, ci, page, all_links, per_cat_count,
                 all_candidate_urls, deduped, total_found, total_sent,
                 blocked_hits, html, product, outbox, loadedFile, loadedKeys,
                 kept, collected>>

\* fetch_product, lines 300-301: a block page raises "... bloqueo/captcha.";
\* main's handler (lines 445-448) counts it.
ProductBlocked ==
  /\ pc = "products"
  /\ fetchlog' = Append(fetchlog, Fetched(CurrentUrl, "blocked", None))
  /\ blocked_hits' = blocked_hits + 1
  /\ AfterCandidate
  /\ UNCHANGED <<file, run, RESET_STATE, credentials, error, state, sent,
                 sent_set, ci, page, all_links, per_cat_count,
                 all_candidate_urls, deduped, total_found, total_sent, html,
                 product, outbox, loadedFile, loadedKeys, kept, collected>>

\* main, lines 426-448 when fetch_product returns a Product from page h.
ProductFetched(h) ==
  /\ pc = "products"
  /\ \E p \in fetch_product(CurrentUrl, h) :
       /\ html' = h
       /\ product' = p
       /\ fetchlog' = Append(fetchlog, Fetched(p.url, "ok", p.discount_pct))
       /\ IF ~Eligible(p)
            THEN UNCHANGED <<total_found, total_sent, sent, sent_set, outbox>>
            ELSE /\ total_found' = total_found + 1
                 /\ IF p.url \in sent_set
                      THEN UNCHANGED <<total_sent, sent, sent_set, outbox>>
                      ELSE \E outcome \in TelegramOutcomes :
                             /\ outbox' = Append(outbox, Msg("offer", p.url, outcome))
                             /\ total_sent' = IF outcome = "ok" THEN total_sent + 1
                                              ELSE total_sent
                             /\ sent' = Recorded(sent, p, outcome, run)
                             /\ sent_set' = IF outcome = "ok"
                                              THEN sent_set \cup {p.url}
                                              ELSE sent_set
  /\ AfterCandidate
  /\ UNCHANGED <<file, run, RESET_STATE, credentials, error, state, ci, page,
                 all_links, per_cat_count, all_candidate_urls, deduped,
                 blocked_hits, loadedFile, loadedKeys, kept, collected>>

\* main, lines 450-453.
Persist ==
  /\ pc = "persist"
  /\ state' = [state EXCEPT !.sentKind = "map", !.sent = sent, !.last_run = run]
  /\ file' = save_state(state')
  /\ kept' = kept \cup Delivered(outbox)
  /\ pc' = "summarize"
  /\ UNCHANGED <<run, RESET_STATE, credentials, error, sent, sent_set, ci, page,
                 all_links, per_cat_count, all_candidate_urls, deduped,
                 total_checked, total_found, total_sent, blocked_hits, html,
                 product, outbox, fetchlog, loadedFile, loadedKeys, collected>>

\* main, lines 463-471.
Summarize ==
  /\ pc = "summarize"
  /\ \E outcome \in TelegramOutcomes :
       /\ outbox' = Append(outbox, Msg("summary", "", outcome))
       /\ pc' = IF outcome = "ok" THEN "done" ELSE "failed"
       /\ error' = IF outcome = "ok" THEN error ELSE "RuntimeError"
  /\ UNCHANGED <<file, run, RESET_STATE, credentials, scanVars, html, product,
                 histVars>>

\* The process has ended; the scheduler starts main() again, with the state
\* file as the last run left it.
NextRun ==
  /\ pc \in {"done", "failed"}
  /\ run < MaxRuns
  /\ run' = run + 1
  /\ RESET_STATE' \in BOOLEAN
  /\ pc' = "load" /\ error' = "none"
  /\ state' = FreshState /\ sent' = <<>> /\ sent_set' = {}
  /\ ci' = 1 /\ page' = 1 /\ all_links' = <<>>
  /\ per_cat_count' = <<>> /\ all_candidate_urls' = <<>> /\ deduped' = <<>>
  /\ total_checked' = 0 /\ total_found' = 0 /\ total_sent' = 0
  /\ blocked_hits' = 0
  /\ html' = NoPage /\ product' = NoProduct
  /\ outbox' = <<>> /\ fetchlog' = <<>> /\ collected' = {}
  /\ UNCHANGED <<file, credentials, loadedFile, loadedKeys, kept>>

Next ==
  \/ Load
  \/ ListingFetchFails
  \/ ListingBlocked
  \/ \E links \in Listings : ListingPage(links)
  \/ ReportZero
  \/ Dedupe
  \/ ProductFetchFails
  \/ ProductBlocked
  \/ \E h \in ScanPages : ProductFetched(h)
  \/ Persist
  \/ Summarize
  \/ NextRun

Spec == Init /\ [][Next]_vars

\* --------------------------------------------- fetch_product on its own
\* fetch_product applied to one page out of a wider set of pages: prices that
\* are far apart, equal, inverted, zero, and markers of one to three digits.
NowSets == {{}, {0}, {10}, {50}, {99}, {40, 50}}
BeforeSets == {{}, {40}, {100}, {200}, {100, 10000}}
SolesSets == {{}, {50}, {50, 100}, {10, 2000}}
HtmlPages ==
  {Page(nk, bk, so, neg, off, dscto) :
     nk \in NowSets, bk \in BeforeSets, so \in SolesSets,
     neg \in {None, 0, 70, 150}, off \in {None, 30, 100}, dscto \in {None, 999}}

InitDisc ==
  /\ file = FileOf("missing", "absent", <<>>, None)
  /\ run = 1
  /\ RESET_STATE = FALSE
  /\ credentials = TRUE
  /\ pc = "fetch_product" /\ error = "none"
  /\ state = FreshState /\ sent = <<>> /\ sent_set = {}
  /\ ci = 1 /\ page = 1 /\ all_links = <<>>
  /\ per_cat_count = <<>> /\ all_candidate_urls = <<>> /\ deduped = <<>>
  /\ total_checked = 0 /\ total_found = 0 /\ total_sent = 0 /\ blocked_hits = 0
  /\ html \in HtmlPages /\ product = NoProduct
  /\ outbox = <<>> /\ fetchlog = <<>> /\ collected = {}
  /\ loadedFile = file /\ loadedKeys = {} /\ kept = {}

\* fetch_product, lines 303-310, on the page html.
ExtractProduct ==
  /\ pc = "fetch_product"
  /\ product' \in fetch_product("u1", html)
  /\ pc' = "fetched"
  /\ UNCHANGED <<file, run, RESET_STATE, credentials, error, scanVars, html,
                 outbox, histVars>>

NextDisc == ExtractProduct

SpecDisc == InitDisc /\ [][NextDisc]_vars

\* ================================================================== claims
Offers == {i \in 1..Len(outbox) : outbox[i].kind = "offer"}
OfferUrls == {outbox[i].url : i \in Offers}
Fetches == 1..Len(fetchlog)
LoadErrors == {"TypeError", "AttributeError"}

\* C1: with the reset flag off, a scan sends no offer notification for an
\* identity that an earlier run notified and persisted (kept holds those
\* identities until the scan's own Persist adds to it).
C1_NoRenotify ==
  pc \in {"categories", "report_zero", "dedupe", "products", "persist"}
    => \A i \in Offers : outbox[i].url \notin kept

\* C1 witness: a later run without reset has fetched a kept identity with a
\* qualifying discount and finished its candidates without a message for it.
C1_Witness ==
  /\ run = 2 /\ ~RESET_STATE /\ pc = "persist"
  /\ \E j \in Fetches :
       /\ fetchlog[j].result = "ok"
       /\ fetchlog[j].url \in kept
       /\ fetchlog[j].discount >= MIN_DISCOUNT_PERCENT
       /\ fetchlog[j].url \notin OfferUrls

\* C2: telegram_send is called with an offer only for a candidate whose
\* discount_pct is present and >= the threshold; a candidate with discount_pct
\* absent or threshold-1 gets no message; a candidate at exactly the threshold
\* whose identity was not in sent gets one.
C2_Threshold ==
  /\ \A i \in Offers : \E j \in Fetches :
       /\ fetchlog[j].url = outbox[i].url
       /\ fetchlog[j].result = "ok"
       /\ fetchlog[j].discount # None
       /\ fetchlog[j].discount >= MIN_DISCOUNT_PERCENT
  /\ \A j \in Fetches :
       fetchlog[j].discount \in {None, MIN_DISCOUNT_PERCENT - 1}
         => fetchlog[j].url \notin OfferUrls
  /\ \A j \in Fetches :
       (/\ fetchlog[j].result = "ok"
        /\ fetchlog[j].discount = MIN_DISCOUNT_PERCENT
        /\ fetchlog[j].url \notin loadedKeys)
         => fetchlog[j].url \in OfferUrls

\* C2 witness: one candidate at the threshold was notified, one at threshold-1
\* and one without a discount were not.
C2_Witness ==
  /\ \E j \in Fetches :
       /\ fetchlog[j].result = "ok"
       /\ fetchlog[j].discount = MIN_DISCOUNT_PERCENT
       /\ fetchlog[j].url \in Delivered(outbox)
  /\ \E j \in Fetches :
       /\ fetchlog[j].result = "ok"
       /\ fetchlog[j].discount = MIN_DISCOUNT_PERCENT - 1
       /\ fetchlog[j].url \notin OfferUrls

\* C3 (as claimed): no scan in which a notification failed completes normally.
C3_FailureSurfaces ==
  pc = "done" => \A i \in 1..Len(outbox) : outbox[i].outcome = "ok"

\* C4 (as claimed): a scan that loaded its state and whose notifications all
\* went through ends with the state file written by this run and a report
\* sent, whatever the sources yielded.
C4_PersistAndSummarize ==
  (/\ pc \in {"done", "failed"}
   /\ error \notin LoadErrors
   /\ \A i \in 1..Len(outbox) : outbox[i].outcome = "ok")
    => /\ file.kind = "dict" /\ file.last_run = run
       /\ \E i \in 1..Len(outbox) : outbox[i].kind \in {"summary", "zero"}

\* C5 (as claimed): a state file that is missing, not JSON, or without a
\* usable `sent` mapping loads as an empty `sent` and does not fail the scan.
C5_LoadTolerant ==
  (pc # "load" /\ ~(loadedFile.kind = "dict" /\ loadedFile.sentKind = "map"))
    => /\ error \notin LoadErrors
       /\ loadedKeys = {}

\* C6 (as claimed): the `sent` mapping a run persisted holds at most SENT_CAP
\* entries.
C6_Capped ==
  (file.kind = "dict" /\ file.last_run = run) => Len(file.sent) <= SENT_CAP

\* C7: when the fetch of a candidate fails (error or block page), the
\* identities notified in the scan stay recorded, every candidate of deduped
\* is still fetched in order, and the scan persists its state with them.
C7_CandidateIsolation ==
  (\E j \in Fetches : fetchlog[j].result \in {"error", "blocked"})
    => /\ Delivered(outbox) \subseteq Keys(sent)
       /\ pc = "failed" => (error = "RuntimeError" /\ outbox # <<>>
                            /\ outbox[Len(outbox)].kind = "summary")
       /\ pc \in {"persist", "summarize", "done", "failed"}
            => /\ Len(fetchlog) = Len(deduped)
               /\ \A j \in Fetches : fetchlog[j].url = deduped[j]
       /\ pc \in {"summarize", "done", "failed"}
            => /\ file.kind = "dict" /\ file.last_run = run
               /\ Delivered(outbox) \subseteq Keys(file.sent)

\* C7 witness: the first candidate's fetch failed, the second was fetched and
\* notified, and the scan ended with it in the state file.
C7_Witness ==
  /\ pc = "done"
  /\ Len(fetchlog) = 2
  /\ fetchlog[1].result \in {"error", "blocked"}
  /\ fetchlog[2].result = "ok"
  /\ fetchlog[2].url \in Delivered(outbox)
  /\ fetchlog[2].url \in Keys(file.sent)

\* C8 (as claimed): a failed listing-page fetch loses no link collected from
\* the earlier pages of the source, and every source is scanned.
C8_PageIsolation ==
  /\ collected \subseteq (Range(all_candidate_urls) \cup Range(all_links))
  /\ pc \in {"report_zero", "dedupe", "products", "persist", "summarize"}
       => Len(per_cat_count) = Len(category_urls)

\* C9 (as claimed): the discount_pct of a Product built by fetch_product is
\* absent or an integer in [0, 100).
C9_DiscountRange ==
  product.discount_pct = None
    \/ (0 <= product.discount_pct /\ product.discount_pct < 100)

\* C10: an identity enters `sent` (in memory and in the file this run wrote)
\* only when its offer notification was delivered in this scan; a candidate
\* whose fetch failed, that was below the threshold, or whose notification
\* failed is not added.
C10_RecordAfterNotify ==
  /\ (Keys(sent) \ loadedKeys) \subseteq Delivered(outbox)
  /\ (file.kind = "dict" /\ file.last_run = run)
       => (Keys(file.sent) \ loadedKeys) \subseteq Delivered(outbox)
  /\ \A j \in Fetches :
       (fetchlog[j].url \notin loadedKeys
          /\ fetchlog[j].url \notin Delivered(outbox))
         => fetchlog[j].url \notin Keys(sent)

\* C10 witness: a scan ended in which one offer was delivered and recorded and
\* another offer's notification failed and was not recorded.
C10_Witness ==
  /\ pc = "done"
  /\ \E i \in Offers : outbox[i].outcome = "ok" /\ outbox[i].url \in Keys(file.sent)
  /\ \E i \in Offers : outbox[i].outcome # "ok" /\ outbox[i].url \notin Keys(file.sent)

====
